---- MODULE Spec2Model ----
(***************************************************************************)
(* A model of the batch scripts of indesign-html-merge:                    *)
(*   fix-fonts.py                 rename_fonts                             *)
(*   merge_all_publications.py    find_publication_files, merge_html_pages *)
(*   optimise_base64*.py          the base64 media optimisers              *)
(*   png_to_jpeg_optimiser.py     the PNG to JPEG converter                *)
(* The scripts share no state, so each has its own variables and its own   *)
(* specification (SpecFonts, SpecMerge, ...); a specification holds the    *)
(* variables of the other scripts at their initial values.                 *)
(* Text is modelled as TLA+ strings, character by character.               *)
(***************************************************************************)
EXTENDS Integers, Sequences, FiniteSets, TLC

VARIABLES
    \* fix-fonts.py
    fdir,            \* the directory: entry name -> [kind, content]
    fdir0,           \* the directory as it was when rename_fonts started
    ftodo,           \* names of the os.listdir snapshot not yet visited
    renamed_count,
    skipped_count,
    fpc,             \* "idle" | "loop" | "done"
    \* merge_all_publications.py
    cwd,             \* os.listdir(current_dir): file names, in listing order
    has_main,        \* the file names whose HTML holds the main content div
    publication_files,
    merged,          \* the blocks appended to merged_html, in order
    mpc,             \* "idle" | "start" | "found" | "merged" | "none"
    \* Base85: encode_base85 (Python) and decodeBase85 (the injected JavaScript)
    b85_data,        \* the bytes given to encode_base85
    b85_encoded,     \* the data-optimized-src text it returns
    b85_decoded,     \* the bytes decodeBase85 makes of that text
    bpc,             \* "idle" | "start" | "encoded" | "decoded"
    \* the optimisers: one call of optimise_audio / optimize_audio / optimize_image
    ocall,           \* the last call: [fn, len, mime, env]
    oret,            \* what it returned: [src, len, mime]
    ocalls,          \* the calls made so far
    audio_stats,     \* the global audio_stats of the script
    image_stats,     \* the global image_stats of the script
    \* the optimisers: one run of a script over an HTML file
    html_in,         \* the text of the input file
    html_tags,       \* the tags and declarations html_in was written with
    html_out,        \* the text written to the output file
    hscript,         \* the script and mode that ran
    hopts,           \* its options
    henv,            \* what ffmpeg, Pillow and gzip did in this run
    uri_calls,       \* the calls of process_data_uri: [tag_name, data_uri, ret, ...]
    hpc,             \* "idle" | "start" | "done"
    \* png_to_jpeg_optimiser.py: one call of should_exclude / process_data_uri
    ucall,           \* the call: [fn, ...arguments]
    uret,            \* what it returned
    upc              \* "idle" | "start" | "done"

fontVars == <<fdir, fdir0, ftodo, renamed_count, skipped_count, fpc>>
mergeVars == <<cwd, has_main, publication_files, merged, mpc>>
b85Vars == <<b85_data, b85_encoded, b85_decoded, bpc>>
optVars == <<ocall, oret, ocalls>>
statVars == <<audio_stats, image_stats>>
htmlVars == <<html_in, html_tags, html_out, hscript, hopts, henv, uri_calls, hpc>>
uriVars == <<ucall, uret, upc>>
vars == <<fontVars, mergeVars, b85Vars, optVars, statVars, htmlVars, uriVars>>

\* The state of a script that is not running.
FontsIdle ==
    /\ fdir = <<>> /\ fdir0 = <<>> /\ ftodo = {}
    /\ renamed_count = 0 /\ skipped_count = 0 /\ fpc = "idle"

MergeIdle ==
    /\ cwd = <<>> /\ has_main = {} /\ publication_files = <<>>
    /\ merged = <<>> /\ mpc = "idle"

B85Idle ==
    /\ b85_data = <<>> /\ b85_encoded = "" /\ b85_decoded = <<>> /\ bpc = "idle"

NoCall == [fn |-> "", len |-> 0, mime |-> "", env |-> <<>>]

NoReturn == [src |-> "", len |-> 0, mime |-> ""]

\* audio_stats = {...} and image_stats = {...} as the scripts define them
ZeroStats ==
    [detected |-> 0, processed |-> 0, skipped_small |-> 0,
     skipped_no_reduction |-> 0, skipped_error |-> 0, details |-> <<>>]

OptIdle == ocall = NoCall /\ oret = NoReturn /\ ocalls = 0

StatsIdle == audio_stats = ZeroStats /\ image_stats = ZeroStats

HtmlIdle ==
    /\ html_in = "" /\ html_tags = <<>> /\ html_out = "" /\ hscript = ""
    /\ hopts = <<>> /\ henv = <<>> /\ uri_calls = <<>> /\ hpc = "idle"

UriIdle == ucall = <<>> /\ uret = <<>> /\ upc = "idle"

(***************************************************************************)
(* Text helpers (Python str operations).                                   *)
(***************************************************************************)
Ch(s, i) == SubSeq(s, i, i)

\* s[i-1:] of Python, 1-based: the text from position i on
From(s, i) == SubSeq(s, i, Len(s))

\* s.startswith(lit, i-1)
LitAt(s, i, lit) ==
    /\ i >= 1
    /\ i + Len(lit) - 1 <= Len(s)
    /\ SubSeq(s, i, i + Len(lit) - 1) = lit

StartsWith(s, lit) == LitAt(s, 1, lit)

EndsWith(s, lit) == Len(lit) <= Len(s) /\ LitAt(s, Len(s) - Len(lit) + 1, lit)

\* the least of a set of positions, or none when there is no position
First(positions, none) ==
    IF positions = {} THEN none
    ELSE CHOOSE x \in positions : \A y \in positions : x <= y

\* the greatest of a set of positions, or none when there is no position
Last(positions, none) ==
    IF positions = {} THEN none
    ELSE CHOOSE x \in positions : \A y \in positions : y <= x

\* the first position >= i of s holding lit, or 0 (str.find)
Find(s, lit, i) ==
    First({k \in i..(Len(s) - Len(lit) + 1) : LitAt(s, k, lit)}, 0)

UpperChars == "ABCDEFGHIJKLMNOPQRSTUVWXYZ"
LowerChars == "abcdefghijklmnopqrstuvwxyz"

LowerChar(c) ==
    LET k == Find(UpperChars, c, 1)
    IN  IF k = 0 THEN c ELSE Ch(LowerChars, k)

\* str.lower()
RECURSIVE Lower(_)
Lower(s) ==
    IF Len(s) = 0 THEN ""
    ELSE LowerChar(Ch(s, 1)) \o Lower(From(s, 2))

Digits == "0123456789"

IsDigit(c) == Len(c) = 1 /\ Find(Digits, c, 1) # 0

DigitVal(c) == Find(Digits, c, 1) - 1

\* int(s) for a string of ASCII digits
RECURSIVE ToInt(_)
ToInt(s) ==
    IF Len(s) = 0 THEN 0
    ELSE 10 * ToInt(SubSeq(s, 1, Len(s) - 1)) + DigitVal(Ch(s, Len(s)))

\* the end (exclusive) of the run of digits of s that starts at i
RECURSIVE DigitRunEnd(_, _)
DigitRunEnd(s, i) ==
    IF i <= Len(s) /\ IsDigit(Ch(s, i)) THEN DigitRunEnd(s, i + 1) ELSE i

\* s.split(sep): the pieces of s between the occurrences of the character sep
RECURSIVE Split(_, _)
Split(s, sep) ==
    LET k == Find(s, sep, 1)
    IN  IF k = 0 THEN <<s>>
        ELSE <<SubSeq(s, 1, k - 1)>> \o Split(From(s, k + 1), sep)

(***************************************************************************)
(* fix-fonts.py                                                            *)
(***************************************************************************)
FONT_NAME_MAP ==
    [n \in {"calibrib.ttf", "calibrii.ttf", "calibribi.ttf", "arialbd.ttf",
            "ariali.ttf", "arialbi.ttf", "timesbd.ttf", "timesi.ttf",
            "timesbi.ttf", "verdanab.ttf", "verdanai.ttf", "verdanabi.ttf",
            "georgiabd.ttf", "georgiai.ttf", "georgiabi.ttf"} |->
        CASE n = "calibrib.ttf" -> "Calibri-Bold.ttf"
          [] n = "calibrii.ttf" -> "Calibri-Italic.ttf"
          [] n = "calibribi.ttf" -> "Calibri-BoldItalic.ttf"
          [] n = "arialbd.ttf" -> "Arial-Bold.ttf"
          [] n = "ariali.ttf" -> "Arial-Italic.ttf"
          [] n = "arialbi.ttf" -> "Arial-BoldItalic.ttf"
          [] n = "timesbd.ttf" -> "Times-New-Roman-Bold.ttf"
          [] n = "timesi.ttf" -> "Times-New-Roman-Italic.ttf"
          [] n = "timesbi.ttf" -> "Times-New-Roman-BoldItalic.ttf"
          [] n = "verdanab.ttf" -> "Verdana-Bold.ttf"
          [] n = "verdanai.ttf" -> "Verdana-Italic.ttf"
          [] n = "verdanabi.ttf" -> "Verdana-BoldItalic.ttf"
          [] n = "georgiabd.ttf" -> "Georgia-Bold.ttf"
          [] n = "georgiai.ttf" -> "Georgia-Italic.ttf"
          [] n = "georgiabi.ttf" -> "Georgia-BoldItalic.ttf"]

\* The entry names a modelled directory draws from (a case-sensitive file
\* system): two spellings of one key, targets, and names outside the map.
FontNames ==
    {"calibrib.ttf", "CALIBRIB.TTF", "Calibri-Bold.ttf", "arialbd.ttf",
     "Arial-Bold.ttf", "calibrib.otf", "notes.txt"}

\* The most entries a modelled directory holds.
MaxFontFiles == 3

\* A directory entry: a regular file, or a symbolic link whose target is
\* missing. content tells the entries apart (the name the entry had at start).
EntryKinds == {"file", "broken_symlink"}

\* os.path.exists(new_path): follows symbolic links, so it is False for a
\* broken link although the directory holds an entry of that name.
PathExists(d, name) == name \in DOMAIN d /\ d[name].kind # "broken_symlink"

\* filename.lower().endswith(('.ttf', '.otf')) and lower_filename in FONT_NAME_MAP
IsCandidate(filename) ==
    /\ EndsWith(Lower(filename), ".ttf") \/ EndsWith(Lower(filename), ".otf")
    /\ Lower(filename) \in DOMAIN FONT_NAME_MAP

\* os.rename(old_path, new_path) on POSIX: the entry moves to the new name and
\* silently replaces an entry that has it.
OsRename(d, old, new) ==
    [n \in (DOMAIN d \ {old}) \cup {new} |-> IF n = new THEN d[old] ELSE d[n]]

\* What rename_fonts leaves alone: the state of the other scripts.
FontsFrame == UNCHANGED <<mergeVars, b85Vars, optVars, statVars, htmlVars, uriVars>>

FontsInit ==
    /\ MergeIdle /\ B85Idle /\ OptIdle /\ StatsIdle /\ HtmlIdle /\ UriIdle
    /\ \E names \in SUBSET FontNames :
         /\ Cardinality(names) <= MaxFontFiles
         /\ \E kinds \in [names -> EntryKinds] :
              fdir = [n \in names |-> [kind |-> kinds[n], content |-> n]]
    /\ fdir0 = fdir
    /\ ftodo = DOMAIN fdir
    /\ renamed_count = 0
    /\ skipped_count = 0
    /\ fpc = "loop"

\* One iteration of `for filename in os.listdir(directory)` on a candidate
\* whose target does not exist: the rename succeeds.
RenameFont(filename) ==
    /\ fpc = "loop" /\ filename \in ftodo
    /\ IsCandidate(filename)
    /\ ~PathExists(fdir, FONT_NAME_MAP[Lower(filename)])
    /\ filename \in DOMAIN fdir
    /\ fdir' = OsRename(fdir, filename, FONT_NAME_MAP[Lower(filename)])
    /\ renamed_count' = renamed_count + 1
    /\ ftodo' = ftodo \ {filename}
    /\ UNCHANGED <<fdir0, skipped_count, fpc>>
    /\ FontsFrame

\* ... os.rename raises (caught by `except Exception`): nothing is counted.
RenameFontFails(filename) ==
    /\ fpc = "loop" /\ filename \in ftodo
    /\ IsCandidate(filename)
    /\ ~PathExists(fdir, FONT_NAME_MAP[Lower(filename)])
    /\ ftodo' = ftodo \ {filename}
    /\ UNCHANGED <<fdir, fdir0, renamed_count, skipped_count, fpc>>
    /\ FontsFrame

\* ... the target exists: skipped.
SkipFont(filename) ==
    /\ fpc = "loop" /\ filename \in ftodo
    /\ IsCandidate(filename)
    /\ PathExists(fdir, FONT_NAME_MAP[Lower(filename)])
    /\ skipped_count' = skipped_count + 1
    /\ ftodo' = ftodo \ {filename}
    /\ UNCHANGED <<fdir, fdir0, renamed_count, fpc>>
    /\ FontsFrame

\* ... an entry that is no mapped font file.
IgnoreEntry(filename) ==
    /\ fpc = "loop" /\ filename \in ftodo
    /\ ~IsCandidate(filename)
    /\ ftodo' = ftodo \ {filename}
    /\ UNCHANGED <<fdir, fdir0, renamed_count, skipped_count, fpc>>
    /\ FontsFrame

\* The loop is over: the summary is printed.
FontsSummary ==
    /\ fpc = "loop" /\ ftodo = {}
    /\ fpc' = "done"
    /\ UNCHANGED <<fdir, fdir0, ftodo, renamed_count, skipped_count>>
    /\ FontsFrame

FontsNext ==
    \/ \E f \in FontNames : RenameFont(f)
    \/ \E f \in FontNames : RenameFontFails(f)
    \/ \E f \in FontNames : SkipFont(f)
    \/ \E f \in FontNames : IgnoreEntry(f)
    \/ FontsSummary

SpecFonts == FontsInit /\ [][FontsNext]_vars

\* C4: rename_fonts never overwrites or loses an entry: at every moment of
\* the run the directory holds as many entries as at the start, with the same
\* contents.
C4_NoEntryLost ==
    /\ Cardinality(DOMAIN fdir) = Cardinality(DOMAIN fdir0)
    /\ {fdir[n].content : n \in DOMAIN fdir} =
       {fdir0[n].content : n \in DOMAIN fdir0}

(***************************************************************************)
(* merge_all_publications.py                                               *)
(***************************************************************************)
\* os.getcwd()
CurrentDir == "/pub"

\* os.path.join(current_dir, filename)
PathJoin(dir, filename) == dir \o "/" \o filename

\* the last position of s holding the character c, or 0 (str.rfind)
RECURSIVE RFind(_, _, _)
RFind(s, c, i) ==
    IF i < 1 THEN 0 ELSE IF Ch(s, i) = c THEN i ELSE RFind(s, c, i - 1)

\* os.path.basename(file_path)
Basename(path) == From(path, RFind(path, "/", Len(path)) + 1)

\* `$` of a Python regex: the end of the string, or just before a newline
\* that ends it
AtEnd(s, p) == p = Len(s) + 1 \/ (p = Len(s) /\ Ch(s, p) = "\n")

\* re.compile(r'publication-(\d+)\.html$') matched at position i of filename:
\* the end (exclusive) of group 1, or 0 when there is no match at i. \d+ is
\* greedy and must be followed by ".html", so it is the whole run of digits.
PatternMatchAt(filename, i) ==
    LET d == i + Len("publication-")
        e == DigitRunEnd(filename, d)
    IN  IF /\ LitAt(filename, i, "publication-")
           /\ e > d
           /\ LitAt(filename, e, ".html")
           /\ AtEnd(filename, e + Len(".html"))
        THEN e ELSE 0

\* pattern.search(filename): the leftmost position with a match, or 0
RECURSIVE PatternSearch(_, _)
PatternSearch(filename, i) ==
    IF i > Len(filename) THEN 0
    ELSE IF PatternMatchAt(filename, i) # 0 THEN i
    ELSE PatternSearch(filename, i + 1)

\* int(match.group(1))
PageNumber(filename) ==
    LET i == PatternSearch(filename, 1)
    IN  ToInt(SubSeq(filename, i + Len("publication-"),
                     PatternMatchAt(filename, i) - 1))

\* the (page_number, file_path) pairs appended in the os.listdir loop
RECURSIVE Collect(_)
Collect(names) ==
    IF names = <<>> THEN <<>>
    ELSE (IF PatternSearch(Head(names), 1) # 0
          THEN << <<PageNumber(Head(names)), PathJoin(CurrentDir, Head(names))>> >>
          ELSE <<>>) \o Collect(Tail(names))

\* the sort key: lambda x: x[0]
SortKey(x) == x[1]

\* (a mutant of InsertSorted: the list is left in os.listdir order)
InsertUnsorted(sorted, x) == Append(sorted, x)

\* list.sort(key=...) is stable: x goes after the pairs whose key is not greater
RECURSIVE InsertSorted(_, _)
InsertSorted(sorted, x) ==
    IF sorted = <<>> THEN <<x>>
    ELSE IF SortKey(sorted[Len(sorted)]) <= SortKey(x) THEN Append(sorted, x)
    ELSE Append(InsertSorted(SubSeq(sorted, 1, Len(sorted) - 1), x),
                sorted[Len(sorted)])

RECURSIVE SortPairs(_)
SortPairs(pairs) ==
    IF pairs = <<>> THEN <<>>
    ELSE InsertSorted(SortPairs(SubSeq(pairs, 1, Len(pairs) - 1)),
                      pairs[Len(pairs)])

\* find_publication_files(): the file paths in sorted order
FindPublicationFilesResult(names) ==
    LET sorted == SortPairs(Collect(names))
    IN  [k \in 1..Len(sorted) |-> sorted[k][2]]

\* os.path.basename(file_path).split('-')[1].split('.')[0]
FilePageNumber(file_path) ==
    Split(Split(Basename(file_path), "-")[2], ".")[1]

\* The blocks merge_html_pages appends to merged_html.
PublicationDiv(file_path) ==
    [kind |-> "publication",
     id |-> "publication-" \o FilePageNumber(file_path),
     file |-> file_path, page |-> 0]

Separator(display_page_number) ==
    [kind |-> "separator", id |-> "", file |-> "", page |-> display_page_number]

\* (a mutant of BlocksOfFile: the wrapper is written without the
\* `if main_content:` test)
BlocksOfFileUnguarded(files, index, main) ==
    <<PublicationDiv(files[index])>> \o
    (IF index < Len(files) THEN <<Separator(index)>> ELSE <<>>)

\* One iteration of `for index, file_path in enumerate(publication_files, 1)`:
\* soup.select_one found the main content div (main) or not.
BlocksOfFile(files, index, main) ==
    IF main
    THEN <<PublicationDiv(files[index])>> \o
         (IF index < Len(files) THEN <<Separator(index)>> ELSE <<>>)
    ELSE <<>>

\* the loop of merge_html_pages from index on
RECURSIVE MergeBlocks(_, _, _)
MergeBlocks(files, index, mains) ==
    IF index > Len(files) THEN <<>>
    ELSE BlocksOfFile(files, index, Basename(files[index]) \in mains)
         \o MergeBlocks(files, index + 1, mains)

\* The file names a modelled directory draws from.
PubNames ==
    {"publication-1.html", "publication-2.html", "publication-10.html",
     "my-publication-3.html", "publication-4.htm", "notes.txt"}

\* The most files a modelled directory holds.
MaxPubFiles == 3

RECURSIVE Listings(_)
Listings(n) ==
    IF n = 0 THEN {<<>>}
    ELSE LET shorter == Listings(n - 1)
         IN  shorter \cup
             {Append(l, f) : l \in {x \in shorter : Len(x) = n - 1},
                             f \in PubNames}

NoDuplicates(l) == \A i, j \in 1..Len(l) : i # j => l[i] # l[j]

Range(l) == {l[k] : k \in 1..Len(l)}

\* What the merge script leaves alone: the state of the other scripts.
MergeFrame == UNCHANGED <<fontVars, b85Vars, optVars, statVars, htmlVars, uriVars>>

MergeInit ==
    /\ FontsIdle /\ B85Idle /\ OptIdle /\ StatsIdle /\ HtmlIdle /\ UriIdle
    /\ cwd \in {l \in Listings(MaxPubFiles) : NoDuplicates(l)}
    /\ has_main \in SUBSET Range(cwd)
    /\ publication_files = <<>>
    /\ merged = <<>>
    /\ mpc = "start"

\* main(): publication_files = find_publication_files()
FindPublicationFiles ==
    /\ mpc = "start"
    /\ publication_files' = FindPublicationFilesResult(cwd)
    /\ mpc' = "found"
    /\ UNCHANGED <<cwd, has_main, merged>>
    /\ MergeFrame

\* main(): `if publication_files:` merge_html_pages(publication_files, ...)
MergeHtmlPages ==
    /\ mpc = "found"
    /\ publication_files # <<>>
    /\ merged' = MergeBlocks(publication_files, 1, has_main)
    /\ mpc' = "merged"
    /\ UNCHANGED <<cwd, has_main, publication_files>>
    /\ MergeFrame

\* main(): `else:` no publication files found
NoPublicationFiles ==
    /\ mpc = "found"
    /\ publication_files = <<>>
    /\ mpc' = "none"
    /\ UNCHANGED <<cwd, has_main, publication_files, merged>>
    /\ MergeFrame

MergeNext ==
    \/ FindPublicationFiles
    \/ MergeHtmlPages
    \/ NoPublicationFiles

SpecMerge == MergeInit /\ [][MergeNext]_vars

\* A name of the form <anything>publication-<digits>.html, read from its end.
TrailingDigitsStart(f) ==
    CHOOSE d \in 1..(Len(f) + 1) :
        /\ \A j \in d..(Len(f) - Len(".html")) : IsDigit(Ch(f, j))
        /\ d = 1 \/ ~IsDigit(Ch(f, d - 1))

IsPublicationName(f) ==
    /\ EndsWith(f, ".html")
    /\ TrailingDigitsStart(f) <= Len(f) - Len(".html")
    /\ LitAt(f, TrailingDigitsStart(f) - Len("publication-"), "publication-")

NameNumber(f) ==
    ToInt(SubSeq(f, TrailingDigitsStart(f), Len(f) - Len(".html")))

MergeFound == mpc \in {"found", "merged", "none"}

IsPublicationBlock(b) == b.kind = "publication"

IsSeparatorBlock(b) == b.kind = "separator"

HasMainContent(file_path) == Basename(file_path) \in has_main

EmittedFiles ==
    LET divs == SelectSeq(merged, IsPublicationBlock)
    IN  [k \in 1..Len(divs) |-> divs[k].file]

\* C6: the merged output holds exactly one publication wrapper for each input
\* file that has a main content div, none for the others, in the order of
\* publication_files.
C6_OneWrapperPerFileInOrder ==
    mpc = "merged" => EmittedFiles = SelectSeq(publication_files, HasMainContent)

\* three files were found, the middle one has no main content div
C6_Witness ==
    /\ mpc = "merged"
    /\ Len(publication_files) = 3
    /\ Len(EmittedFiles) = 2
    /\ ~HasMainContent(publication_files[2])

\* C7: in the merged output every publication div but the last emitted one
\* is directly followed by one separator, and the last emitted one by none.
C7_SeparatorsBetweenOnly ==
    mpc = "merged" =>
        \A k \in 1..Len(merged) :
            IsPublicationBlock(merged[k]) =>
                LET last == \A j \in (k + 1)..Len(merged) : ~IsPublicationBlock(merged[j])
                    followed == k < Len(merged) /\ IsSeparatorBlock(merged[k + 1])
                IN  followed <=> ~last

\* str(n) for n >= 0
RECURSIVE IntToStr(_)
IntToStr(n) ==
    IF n < 10 THEN Ch(Digits, n + 1)
    ELSE IntToStr(n \div 10) \o Ch(Digits, (n % 10) + 1)

\* C8: the id of each publication div is publication-<N>, N the page number
\* find_publication_files extracted from the file's name.
C8_DivIdIsPageNumber ==
    mpc = "merged" =>
        \A k \in 1..Len(merged) :
            IsPublicationBlock(merged[k]) =>
                merged[k].id =
                    "publication-" \o IntToStr(PageNumber(Basename(merged[k].file)))

(***************************************************************************)
(* Base85: encode_base85 of the optimisers and decodeBase85 of DECODER_JS. *)
(* Bytes are sequences of numbers 0..255.                                  *)
(***************************************************************************)
\* A TLA+ string cannot hold the grave accent (character 96), which both
\* alphabets have: the tab character, which neither has, stands for it.

\* base64.a85encode's alphabet: the characters 33 ('!') to 117 ('u')
A85Chars ==
    "!\"#$%&'()*+,-./0123456789:;<=>?@ABCDEFGHIJKLMNOPQRSTUVWXYZ[\\]^_\tabcdefghijklmnopqrstu"

\* const base85Chars of DECODER_JS
base85Chars ==
    "0123456789ABCDEFGHIJKLMNOPQRSTUVWXYZabcdefghijklmnopqrstuvwxyz!#$%&()*+-;<=>?@^_\t{|}~"

RECURSIVE Repeat(_, _)
Repeat(x, n) == IF n <= 0 THEN <<>> ELSE <<x>> \o Repeat(x, n - 1)

\* TLC's integers have 32 bits and a word of base64._85encode reaches 2^32 - 1:
\* a word is kept as its four bytes (big-endian, as struct '!I' reads it), and
\* its base-85 digits are taken by long division.

\* <<quotient bytes, remainder>> of the number `bytes` divided by 85, the
\* division carried on from the remainder r
RECURSIVE DivMod85(_, _)
DivMod85(bytes, r) ==
    IF bytes = <<>> THEN <<<<>>, r>>
    ELSE LET t == r * 256 + Head(bytes)
             rest == DivMod85(Tail(bytes), t % 85)
         IN  <<<<t \div 85>> \o rest[1], rest[2]>>

\* the base-85 digits of word, the most significant first: the characters that
\* chars2[word // 614125], chars2[word // 85 % 7225] and chars[word % 85] index
RECURSIVE Digits85(_, _)
Digits85(word, n) ==
    IF n = 0 THEN <<>>
    ELSE LET qr == DivMod85(word, 0)
         IN  Digits85(qr[1], n - 1) \o <<qr[2]>>

\* one chunk of base64._85encode with foldnuls
A85Chunk(word) ==
    IF word = <<0, 0, 0, 0>> THEN "z"
    ELSE LET d == Digits85(word, 5)
         IN  Ch(A85Chars, d[1] + 1) \o Ch(A85Chars, d[2] + 1)
             \o Ch(A85Chars, d[3] + 1) \o Ch(A85Chars, d[4] + 1)
             \o Ch(A85Chars, d[5] + 1)

RECURSIVE A85Chunks(_, _)
A85Chunks(b, k) ==
    IF k > Len(b) THEN <<>>
    ELSE <<A85Chunk(SubSeq(b, k, k + 3))>> \o A85Chunks(b, k + 4)

RECURSIVE Join(_)
Join(chunks) == IF chunks = <<>> THEN "" ELSE Head(chunks) \o Join(Tail(chunks))

\* base64.a85encode(data): pad with zero bytes to whole words, encode the words,
\* and cut as many characters off the last chunk as bytes were padded
A85Encode(data) ==
    LET padding == (4 - (Len(data) % 4)) % 4
        chunks == A85Chunks(data \o Repeat(0, padding), 1)
        n == Len(chunks)
        last == IF chunks[n] = "z" THEN "!!!!!" ELSE chunks[n]
    IN  IF padding = 0 THEN Join(chunks)
        ELSE Join(SubSeq(chunks, 1, n - 1)) \o SubSeq(last, 1, 5 - padding)

\* str.replace(old, ''): every occurrence of old is taken out, left to right
RECURSIVE Remove(_, _)
Remove(s, old) ==
    LET k == Find(s, old, 1)
    IN  IF k = 0 THEN s
        ELSE SubSeq(s, 1, k - 1) \o Remove(From(s, k + Len(old)), old)

\* encode_base85(data)
EncodeBase85(data) == Remove(Remove(A85Encode(data), "<~"), "~>")

\* chunk.padEnd(5, 'u')
RECURSIVE PadEnd(_, _, _)
PadEnd(chunk, n, c) == IF Len(chunk) >= n THEN chunk ELSE PadEnd(chunk \o c, n, c)

\* value is below 85^5, which is more than TLC's integers hold: it is kept as
\* five bytes, the most significant first.

\* value * 85 + carry on the bytes of value, from the least significant one
RECURSIVE MulAdd85(_, _)
MulAdd85(value, carry) ==
    IF value = <<>> THEN <<>>
    ELSE LET t == value[Len(value)] * 85 + carry
         IN  Append(MulAdd85(SubSeq(value, 1, Len(value) - 1), t \div 256),
                    t % 256)

\* the inner loop of decodeBase85: value = value * 85 + charIndex, a character
\* that is not in base85Chars is skipped
RECURSIVE ChunkValue(_, _, _)
ChunkValue(chunk, j, value) ==
    IF j > Len(chunk) THEN value
    ELSE LET charIndex == Find(base85Chars, Ch(chunk, j), 1) - 1
         IN  ChunkValue(chunk, j + 1,
                        IF charIndex = -1 THEN value
                        ELSE MulAdd85(value, charIndex))

\* (value >> (j * 8)) & 0xFF of JavaScript: >> works on value modulo 2^32,
\* the four low bytes
ShiftByte(value, j) == value[5 - j]

\* the bytes one chunk adds to result, which has room for `room` more
ChunkBytes(value, room) ==
    SubSeq(<<ShiftByte(value, 3), ShiftByte(value, 2),
             ShiftByte(value, 1), ShiftByte(value, 0)>>, 1,
           IF room < 4 THEN room ELSE 4)

\* the outer loop of decodeBase85 from position i (1-based) on
RECURSIVE DecodeFrom(_, _, _)
DecodeFrom(encoded, i, room) ==
    IF i > Len(encoded) THEN <<>>
    ELSE LET hi == IF i + 4 < Len(encoded) THEN i + 4 ELSE Len(encoded)
             chunk == PadEnd(SubSeq(encoded, i, hi), 5, "u")
             bytes == ChunkBytes(ChunkValue(chunk, 1, <<0, 0, 0, 0, 0>>), room)
         IN  bytes \o DecodeFrom(encoded, i + 5, room - Len(bytes))

\* decodeBase85(encoded): result has Math.floor(encoded.length * 4 / 5) bytes
DecodeBase85(encoded) == DecodeFrom(encoded, 1, (Len(encoded) * 4) \div 5)

\* The byte values and the longest byte string the model encodes.
ByteValues == {0, 1, 65, 255}

MaxBytes == 4

ByteStrings(n) == UNION {[1..k -> ByteValues] : k \in 0..n}

B85Frame == UNCHANGED <<fontVars, mergeVars, optVars, statVars, htmlVars, uriVars>>

B85Init ==
    /\ FontsIdle /\ MergeIdle /\ OptIdle /\ StatsIdle /\ HtmlIdle /\ UriIdle
    /\ b85_data \in ByteStrings(MaxBytes)
    /\ b85_encoded = ""
    /\ b85_decoded = <<>>
    /\ bpc = "start"

\* process_data_uri with use_base85: encoded_data = encode_base85(optimized_data)
EncodeData ==
    /\ bpc = "start"
    /\ b85_encoded' = EncodeBase85(b85_data)
    /\ bpc' = "encoded"
    /\ UNCHANGED <<b85_data, b85_decoded>>
    /\ B85Frame

\* the page's DOMContentLoaded handler: decodeBase85(encodedData)
DecodeData ==
    /\ bpc = "encoded"
    /\ b85_decoded' = DecodeBase85(b85_encoded)
    /\ bpc' = "decoded"
    /\ UNCHANGED <<b85_data, b85_encoded>>
    /\ B85Frame

B85Next == EncodeData \/ DecodeData

SpecB85 == B85Init /\ [][B85Next]_vars

\* C3: decodeBase85 applied to encode_base85(b) returns b.
C3_Base85RoundTrip == bpc = "decoded" => b85_decoded = b85_data

(***************************************************************************)
(* The optimisers of optimise_base64.py, optimise_base64_former.py and     *)
(* optimise_base64_image_audio.py.  What they compute depends on the data  *)
(* only through its length: data is modelled as [src, len], src naming the *)
(* buffer ("input": the argument itself; "ffmpeg", "webp", "saved": what   *)
(* the encoder wrote).  What ffmpeg and Pillow do is the environment's     *)
(* choice.                                                                 *)
(***************************************************************************)
\* `if len(audio_data) < 10240:  # 10KB`
AudioSkipBytes == 10240

\* `if len(image_data) < 1024:  # 1KB`
ImageSkipBytes == 1024

\* one more entry of stats['details'] and one more in a counter
Counted(stats, counter, status) ==
    [stats EXCEPT ![counter] = @ + 1, !.details = Append(@, status)]

Detected(stats) == [stats EXCEPT !.detected = @ + 1]

Original(len, mime, stats) ==
    [src |-> "input", len |-> len, mime |-> mime, stats |-> stats]

\* (a mutant of AudioIsSmaller: `<=` for `<`)
AudioIsNotLarger(new_size, original_size) == new_size <= original_size

\* `if len(optimised_data) < len(audio_data):`
AudioIsSmaller(new_size, original_size) == new_size < original_size

\* optimise_audio(audio_data, mime_type) of optimise_base64.py.
\* env.ffmpeg: "not_found" when `ffmpeg -version` raises; env.run: what the
\* try block does ("exception", or ffmpeg's exit "nonzero" / "zero");
\* env.out_len: the size of the file ffmpeg wrote.
OptimiseAudio(len, mime, env, stats) ==
    LET st == Detected(stats)
    IN  IF env.ffmpeg = "not_found"
        THEN Original(len, mime, Counted(st, "skipped_error", "skipped_no_ffmpeg"))
        ELSE IF len < AudioSkipBytes
        THEN Original(len, mime, Counted(st, "skipped_small", "skipped_small"))
        ELSE IF env.run = "zero"
        THEN IF AudioIsSmaller(env.out_len, len)
             THEN [src |-> "ffmpeg", len |-> env.out_len, mime |-> "audio/mpeg",
                   stats |-> Counted(st, "processed", "processed")]
             ELSE Original(len, mime,
                           Counted(st, "skipped_no_reduction", "skipped_no_reduction"))
        ELSE Original(len, mime, Counted(st, "skipped_error", "skipped_error"))

\* optimize_audio of optimise_base64_image_audio.py: the same code
OptimizeAudioIA(len, mime, env, stats) == OptimiseAudio(len, mime, env, stats)

\* optimize_audio of optimise_base64_former.py: no statistics, no size floor
OptimizeAudioFormer(len, mime, env, stats) ==
    IF env.ffmpeg = "not_found"
    THEN Original(len, mime, stats)
    ELSE IF env.run = "zero" /\ AudioIsSmaller(env.out_len, len)
    THEN [src |-> "ffmpeg", len |-> env.out_len, mime |-> "audio/mpeg",
          stats |-> stats]
    ELSE Original(len, mime, stats)

\* (a mutant of ImageIsSmaller: `<=` for `<`)
ImageIsNotLarger(new_size, original_size) == new_size <= original_size

\* `if len(webp_data) < len(image_data):` and
\* `if len(optimized_data) < len(image_data):`
ImageIsSmaller(new_size, original_size) == new_size < original_size

\* optimize_image(image_data, mime_type, convert_to_webp=...) of
\* optimise_base64_former.py.
\* env.pillow: PILLOW_AVAILABLE; env.valid: is_valid_image opened and verified
\* the data; env.raises: a Pillow call of the try block raises; env.webp_len,
\* env.saved_len: the sizes of the WebP and of the original-format encodings.
OptimizeImageFormer(len, mime, convert_to_webp, env, stats) ==
    IF ~env.pillow THEN Original(len, mime, stats)
    ELSE IF mime = "image/svg+xml" THEN Original(len, mime, stats)
    ELSE IF ~env.valid THEN Original(len, mime, stats)
    ELSE IF env.raises THEN Original(len, mime, stats)
    ELSE IF convert_to_webp /\ ImageIsSmaller(env.webp_len, len)
    THEN [src |-> "webp", len |-> env.webp_len, mime |-> "image/webp",
          stats |-> stats]
    ELSE IF ImageIsSmaller(env.saved_len, len)
    THEN [src |-> "saved", len |-> env.saved_len, mime |-> mime, stats |-> stats]
    ELSE Original(len, mime, stats)

\* optimize_image of optimise_base64_image_audio.py: with image_stats and a
\* size floor
OptimizeImageIA(len, mime, convert_to_webp, env, stats) ==
    LET st == Detected(stats)
    IN  IF ~env.pillow
        THEN Original(len, mime, Counted(st, "skipped_error", "skipped_no_pillow"))
        ELSE IF mime = "image/svg+xml"
        THEN Original(len, mime, [st EXCEPT !.details = Append(@, "skipped_svg")])
        ELSE IF len < ImageSkipBytes
        THEN Original(len, mime, Counted(st, "skipped_small", "skipped_small"))
        ELSE IF ~env.valid
        THEN Original(len, mime, Counted(st, "skipped_error", "skipped_invalid"))
        ELSE IF env.raises
        THEN Original(len, mime, Counted(st, "skipped_error", "skipped_error"))
        ELSE IF convert_to_webp /\ ImageIsSmaller(env.webp_len, len)
        THEN [src |-> "webp", len |-> env.webp_len, mime |-> "image/webp",
              stats |-> Counted(st, "processed", "processed_webp")]
        ELSE IF ImageIsSmaller(env.saved_len, len)
        THEN [src |-> "saved", len |-> env.saved_len, mime |-> mime,
              stats |-> Counted(st, "processed", "processed")]
        ELSE Original(len, mime,
                      Counted(st, "skipped_no_reduction", "skipped_no_reduction"))

\* The sizes an encoder may write for an input of n bytes.
OutLens(n) == {k \in {n - 1, n, n + 1} : k >= 0}

\* What ffmpeg may do.
FfmpegEnvs(n) ==
    {[ffmpeg |-> "not_found", run |-> "none", out_len |-> 0]}
    \cup {[ffmpeg |-> "ok", run |-> r, out_len |-> 0] : r \in {"exception", "nonzero"}}
    \cup {[ffmpeg |-> "ok", run |-> "zero", out_len |-> k] : k \in OutLens(n)}

\* What Pillow may do.
PillowEnvs(n) ==
    {[pillow |-> FALSE, valid |-> FALSE, raises |-> FALSE, webp_len |-> 0, saved_len |-> 0],
     [pillow |-> TRUE, valid |-> FALSE, raises |-> FALSE, webp_len |-> 0, saved_len |-> 0],
     [pillow |-> TRUE, valid |-> TRUE, raises |-> TRUE, webp_len |-> 0, saved_len |-> 0]}
    \cup {[pillow |-> TRUE, valid |-> TRUE, raises |-> FALSE, webp_len |-> w, saved_len |-> k] :
             w \in OutLens(n), k \in OutLens(n)}

AudioMimes == {"audio/wav", "audio/mpeg"}

ImageMimes == {"image/png", "image/jpeg", "image/svg+xml"}

AudioLens == {0, AudioSkipBytes - 1, AudioSkipBytes, AudioSkipBytes + 1}

ImageLens == {0, ImageSkipBytes - 1, ImageSkipBytes, ImageSkipBytes + 1}

\* The most calls of an optimiser in one run.
MaxCalls == 2

OptFrame == UNCHANGED <<fontVars, mergeVars, b85Vars, htmlVars, uriVars>>

OptInit ==
    /\ FontsIdle /\ MergeIdle /\ B85Idle /\ HtmlIdle /\ UriIdle
    /\ ocall = NoCall /\ oret = NoReturn /\ ocalls = 0
    /\ audio_stats = ZeroStats /\ image_stats = ZeroStats

Returned(r) == [src |-> r.src, len |-> r.len, mime |-> r.mime]

CallOptimiseAudio ==
    /\ ocalls < MaxCalls
    /\ \E len \in AudioLens, mime \in AudioMimes :
         \E env \in FfmpegEnvs(len) :
            LET r == OptimiseAudio(len, mime, env, audio_stats)
            IN  /\ ocall' = [fn |-> "optimise_audio", len |-> len, mime |-> mime,
                              env |-> env]
                /\ oret' = Returned(r)
                /\ audio_stats' = r.stats
    /\ ocalls' = ocalls + 1
    /\ UNCHANGED image_stats
    /\ OptFrame

CallOptimizeAudioIA ==
    /\ ocalls < MaxCalls
    /\ \E len \in AudioLens, mime \in AudioMimes :
         \E env \in FfmpegEnvs(len) :
            LET r == OptimizeAudioIA(len, mime, env, audio_stats)
            IN  /\ ocall' = [fn |-> "optimize_audio", len |-> len, mime |-> mime,
                              env |-> env]
                /\ oret' = Returned(r)
                /\ audio_stats' = r.stats
    /\ ocalls' = ocalls + 1
    /\ UNCHANGED image_stats
    /\ OptFrame

CallOptimizeAudioFormer ==
    /\ ocalls < MaxCalls
    /\ \E len \in AudioLens, mime \in AudioMimes :
         \E env \in FfmpegEnvs(len) :
            LET r == OptimizeAudioFormer(len, mime, env, audio_stats)
            IN  /\ ocall' = [fn |-> "optimize_audio_former", len |-> len, mime |-> mime,
                              env |-> env]
                /\ oret' = Returned(r)
                /\ audio_stats' = r.stats
    /\ ocalls' = ocalls + 1
    /\ UNCHANGED image_stats
    /\ OptFrame

CallOptimizeImageFormer ==
    /\ ocalls < MaxCalls
    /\ \E len \in ImageLens, mime \in ImageMimes, webp \in BOOLEAN :
         \E env \in PillowEnvs(len) :
            LET r == OptimizeImageFormer(len, mime, webp, env, image_stats)
            IN  /\ ocall' = [fn |-> "optimize_image_former", len |-> len, mime |-> mime,
                              env |-> env]
                /\ oret' = Returned(r)
                /\ image_stats' = r.stats
    /\ ocalls' = ocalls + 1
    /\ UNCHANGED audio_stats
    /\ OptFrame

CallOptimizeImageIA ==
    /\ ocalls < MaxCalls
    /\ \E len \in ImageLens, mime \in ImageMimes, webp \in BOOLEAN :
         \E env \in PillowEnvs(len) :
            LET r == OptimizeImageIA(len, mime, webp, env, image_stats)
            IN  /\ ocall' = [fn |-> "optimize_image", len |-> len, mime |-> mime,
                              env |-> env]
                /\ oret' = Returned(r)
                /\ image_stats' = r.stats
    /\ ocalls' = ocalls + 1
    /\ UNCHANGED audio_stats
    /\ OptFrame

OptNext ==
    \/ CallOptimiseAudio
    \/ CallOptimizeAudioIA
    \/ CallOptimizeAudioFormer
    \/ CallOptimizeImageFormer
    \/ CallOptimizeImageIA

SpecOpt == OptInit /\ [][OptNext]_vars

AudioCalls == {"optimise_audio", "optimize_audio", "optimize_audio_former"}

ImageCalls == {"optimize_image", "optimize_image_former"}

ReturnsInput == oret.src = "input" /\ oret.len = ocall.len /\ oret.mime = ocall.mime

C9_WitnessNoReduction ==
    /\ ocall.fn \in AudioCalls
    /\ ocall.env.run = "zero" /\ ocall.env.out_len = ocall.len
    /\ ocall.len >= AudioSkipBytes /\ ReturnsInput

\* C10: a call of optimize_image returns the input bytes with the input MIME
\* type, or bytes strictly shorter than the input as image/webp or with the
\* input MIME type; SVG input, Pillow missing, an invalid image and an
\* exception return the input.
C10_ImageSmallerOrOriginal ==
    ocall.fn \in ImageCalls =>
        /\ \/ ReturnsInput
           \/ /\ oret.src \in {"webp", "saved"}
              /\ oret.len < ocall.len
              /\ oret.mime \in {"image/webp", ocall.mime}
        /\ (\/ ocall.mime = "image/svg+xml"
            \/ ~ocall.env.pillow
            \/ ~ocall.env.valid
            \/ ocall.env.raises) => ReturnsInput

\* a PNG came back as a smaller WebP
C10_Witness ==
    /\ ocall.fn = "optimize_image" /\ ocall.mime = "image/png"
    /\ oret.src = "webp" /\ oret.len < ocall.len /\ oret.mime = "image/webp"
    /\ image_stats.processed = 1

(***************************************************************************)
(* Base64 (Python's base64 module) on text and bytes.                     *)
(***************************************************************************)
B64Chars == "ABCDEFGHIJKLMNOPQRSTUVWXYZabcdefghijklmnopqrstuvwxyz0123456789+/"

\* the six bits each character of the alphabet stands for
B64Values ==
    [c \in {Ch(B64Chars, k) : k \in 1..Len(B64Chars)} |-> Find(B64Chars, c, 1) - 1]

\* binascii.a2b_base64 without strict mode, from position i on: quad_pos is the
\* place in the group of four, leftchar the bits left over, pads the '=' seen
\* in a row.  A character outside the alphabet is skipped; enough '=' after two
\* or three characters of a group end the decoding.  ok is FALSE when
\* binascii.Error is raised (a group cut short).
RECURSIVE A2B(_, _, _, _, _)
A2B(text, i, quad_pos, leftchar, pads) ==
    IF i > Len(text)
    THEN [ok |-> quad_pos = 0, bytes |-> <<>>]
    ELSE LET c == Ch(text, i)
             v == IF c \in DOMAIN B64Values THEN B64Values[c] ELSE -1
         IN  IF c = "="
             THEN IF quad_pos >= 2 /\ quad_pos + pads + 1 >= 4
                  THEN [ok |-> TRUE, bytes |-> <<>>]
                  ELSE A2B(text, i + 1, quad_pos, leftchar, pads + 1)
             ELSE IF v = -1
             THEN A2B(text, i + 1, quad_pos, leftchar, pads)
             ELSE IF quad_pos = 0
             THEN A2B(text, i + 1, 1, v, 0)
             ELSE LET byte == CASE quad_pos = 1 -> leftchar * 4 + (v \div 16)
                                [] quad_pos = 2 -> leftchar * 16 + (v \div 4)
                                [] quad_pos = 3 -> leftchar * 64 + v
                      left == CASE quad_pos = 1 -> v % 16
                                [] quad_pos = 2 -> v % 4
                                [] quad_pos = 3 -> 0
                      rest == A2B(text, i + 1, (quad_pos + 1) % 4, left, 0)
                  IN  [rest EXCEPT !.bytes = <<byte>> \o @]

\* base64.b64decode(s), where it does not raise
B64Decode(text) == A2B(text, 1, 0, 0, 0).bytes

\* is_valid_base64(s): base64.b64decode(s) does not raise
IsValidBase64(text) == A2B(text, 1, 0, 0, 0).ok

B64Char(v) == Ch(B64Chars, v + 1)

\* base64.b64encode(data).decode('ascii')
RECURSIVE B64Encode(_)
B64Encode(data) ==
    IF Len(data) = 0 THEN ""
    ELSE IF Len(data) = 1
    THEN B64Char(data[1] \div 4) \o B64Char((data[1] % 4) * 16) \o "=="
    ELSE IF Len(data) = 2
    THEN B64Char(data[1] \div 4) \o B64Char((data[1] % 4) * 16 + (data[2] \div 16))
         \o B64Char((data[2] % 16) * 4) \o "="
    ELSE B64Char(data[1] \div 4) \o B64Char((data[1] % 4) * 16 + (data[2] \div 16))
         \o B64Char((data[2] % 16) * 4 + (data[3] \div 64)) \o B64Char(data[3] % 64)
         \o B64Encode(SubSeq(data, 4, Len(data)))

(***************************************************************************)
(* The regular expressions of the optimisers, matched as Python's re does. *)
(***************************************************************************)
Quotes == {"\"", "'"}

\* \s of a Python regex (the ASCII ones)
Spaces == {" ", "\t", "\n", "\r", "\f"}

\* the first position >= i of s whose character is in stops, or Len(s) + 1:
\* where a negated character class [^...]* stops
ClassRunEnd(s, i, stops) ==
    First({k \in i..Len(s) : Ch(s, k) \in stops}, Len(s) + 1)

\* r'<prefix>[^;]+;base64,<body>+' matched at position i, body the class of
\* the characters not in stops: the end (exclusive) of the match, or 0.
\* [^;]+ can only end at the first ';', and the body class is greedy.
DataUriMatchEnd(s, i, prefix, stops) ==
    LET m == i + Len(prefix)
        semi == ClassRunEnd(s, m, {";"})
        b == semi + Len(";base64,")
        e == ClassRunEnd(s, b, stops)
    IN  IF LitAt(s, i, prefix) /\ semi > m /\ LitAt(s, semi, ";base64,") /\ e > b
        THEN e ELSE 0

\* r'<attr>=["\'](<prefix>[^;]+;base64,[^"\']+)["\']' matched at position i:
\* the end (exclusive) of the match, or 0
AttrMatchEnd(s, i, attr, prefix) ==
    LET q == i + Len(attr) + 1
        e == DataUriMatchEnd(s, q + 1, prefix, Quotes)
    IN  IF /\ LitAt(s, i, attr \o "=")
           /\ q <= Len(s) /\ Ch(s, q) \in Quotes
           /\ e # 0
           /\ e <= Len(s)
        THEN e + 1 ELSE 0

\* r'<<tag>[^>]+<attr>=["\'](...)["\'][^>]*>' matched at position i: the end
\* (exclusive) of the match, or 0.  [^>]+ is greedy: the attribute is the last
\* one before the first '>' after the tag name that lets the rest match.
TagMatchEnd(s, i, tag, attr, prefix) ==
    LET a == i + Len(tag) + 1
        g == ClassRunEnd(s, a, {">"})
        starts == {j \in (a + 1)..g :
                     /\ AttrMatchEnd(s, j, attr, prefix) # 0
                     /\ ClassRunEnd(s, AttrMatchEnd(s, j, attr, prefix), {">"}) <= Len(s)}
        j == Last(starts, 0)
    IN  IF LitAt(s, i, "<" \o tag) /\ starts # {}
        THEN ClassRunEnd(s, AttrMatchEnd(s, j, attr, prefix), {">"}) + 1
        ELSE 0

\* r'url\(["\']?(data:[^;]+;base64,[^"\')\s]+)["\']?\)' matched at position
\* i: the end (exclusive) of the match, or 0
UrlMatchEnd(s, i) ==
    LET o == i + Len("url(")
        u == IF o <= Len(s) /\ Ch(s, o) \in Quotes THEN o + 1 ELSE o
        e1 == DataUriMatchEnd(s, u, "data:", Quotes \cup {")"} \cup Spaces)
        e0 == DataUriMatchEnd(s, o, "data:", Quotes \cup {")"} \cup Spaces)
        e == IF e1 # 0 THEN e1 ELSE e0
        c == IF e <= Len(s) /\ Ch(s, e) \in Quotes THEN e + 1 ELSE e
    IN  IF LitAt(s, i, "url(") /\ e # 0 /\ c <= Len(s) /\ Ch(s, c) = ")"
        THEN c + 1 ELSE 0

\* r'background-image:\s*url\(...\)' matched at position i
CssMatchEnd(s, i) ==
    LET w == i + Len("background-image:")
        u == ClassRunEnd(s, w, {Ch(s, k) : k \in w..Len(s)} \ Spaces)
    IN  IF LitAt(s, i, "background-image:") THEN UrlMatchEnd(s, u) ELSE 0

(***************************************************************************)
(* process_data_uri of the four optimiser scripts.  A call takes the       *)
(* statistics as they are (st) and gives the text it returns with the      *)
(* statistics as it leaves them.                                           *)
(***************************************************************************)

\* re.search(r'data:([^;]+);base64,([^"\'\s]+)', data_uri): the leftmost match
\* and its two groups
UriSearch(data_uri) ==
    LET stops == Quotes \cup Spaces
        starts == {j \in 1..Len(data_uri) :
                     DataUriMatchEnd(data_uri, j, "data:", stops) # 0}
        k == First(starts, 0)
        semi == ClassRunEnd(data_uri, k + Len("data:"), {";"})
    IN  IF starts = {}
        THEN [found |-> FALSE, mime_type |-> "", base64_data |-> ""]
        ELSE [found |-> TRUE,
              mime_type |-> SubSeq(data_uri, k + Len("data:"), semi - 1),
              base64_data |-> SubSeq(data_uri, semi + Len(";base64,"),
                                     DataUriMatchEnd(data_uri, k, "data:", stops) - 1)]

\* `return data_uri`: the matched text as it is.  With what a call returns
\* goes what it did: the optimiser it called ("none" when it called none) and
\* len(encoded_data) (-1 when it encoded nothing).
ReturnDataUri(data_uri, st) ==
    [ret |-> data_uri, audio_stats |-> st.audio_stats, image_stats |-> st.image_stats,
     optimiser |-> "none", new_size |-> -1]

\* (a mutant of TooSmall: nothing is too small)
NeverTooSmall(binary_data, options) == FALSE

\* `if len(binary_data) < options.get('min_size', 1024):`
TooSmall(binary_data, options) == Len(binary_data) < options.min_size

\* The bytes an optimiser returned: the input itself, or what the encoder
\* wrote (r.len bytes whose values do not matter here).
OutBytes(r, binary_data) ==
    IF r.src = "input" THEN binary_data ELSE [i \in 1..r.len |-> 77]

\* The one element of a set.  A value bound through a set of one element is
\* computed once, where a LET definition is computed anew at each use.
Only(S) == CHOOSE x \in S : TRUE

\* process_data_uri of optimise_base64.py
ProcessDataUriBase64(data_uri, tag_name, options, env, st) ==
    Only({IF ~m.found THEN ReturnDataUri(data_uri, st)
          ELSE IF ~IsValidBase64(m.base64_data) THEN ReturnDataUri(data_uri, st)
          ELSE Only({IF TooSmall(binary_data, options)
                     THEN ReturnDataUri(data_uri, st)
                     ELSE IF StartsWith(m.mime_type, "audio/")
                     THEN Only({Only({[ret |-> "data:" \o r.mime \o ";base64,"
                                               \o encoded_data,
                                       audio_stats |-> r.stats,
                                       image_stats |-> st.image_stats,
                                       optimiser |-> "optimise_audio",
                                       new_size |-> Len(encoded_data)] :
                                        encoded_data \in
                                          {B64Encode(OutBytes(r, binary_data))}}) :
                                  r \in {OptimiseAudio(Len(binary_data), m.mime_type,
                                                       env, st.audio_stats)}})
                     ELSE ReturnDataUri(data_uri, st) :
                        binary_data \in {B64Decode(m.base64_data)}}) :
             m \in {UriSearch(data_uri)}})

\* optimize_svg(svg_data) of optimise_base64_former.py.  env.svg_raises: the
\* data is not UTF-8; env.gz_len: the size gzip made of the minified text;
\* env.min_len: the size of the minified text (never more than the input).
OptimizeSvgFormer(len, env, stats) ==
    IF env.svg_raises
    THEN [src |-> "input", len |-> len, compression |-> "none", stats |-> stats]
    ELSE IF env.gz_len < len
    THEN [src |-> "gzip", len |-> env.gz_len, compression |-> "gzip", stats |-> stats]
    ELSE IF env.min_len < len
    THEN [src |-> "minified", len |-> env.min_len, compression |-> "none",
          stats |-> stats]
    ELSE [src |-> "input", len |-> len, compression |-> "none", stats |-> stats]

\* optimize_svg of optimise_base64_image_audio.py: with image_stats
OptimizeSvgIA(len, env, stats) ==
    LET st == Detected(stats)
    IN  IF env.svg_raises
        THEN [src |-> "input", len |-> len, compression |-> "none",
              stats |-> Counted(st, "skipped_error", "skipped_error")]
        ELSE IF env.gz_len < len
        THEN [src |-> "gzip", len |-> env.gz_len, compression |-> "gzip",
              stats |-> Counted(st, "processed", "processed_gzip")]
        ELSE IF env.min_len < len
        THEN [src |-> "minified", len |-> env.min_len, compression |-> "none",
              stats |-> Counted(st, "processed", "processed_minified")]
        ELSE [src |-> "input", len |-> len, compression |-> "none",
              stats |-> Counted(st, "skipped_no_reduction", "skipped_no_reduction")]

\* convert_png_to_jpeg(image_data).  env.jpeg_raises: Pillow raises;
\* env.jpeg_len: the size of the JPEG it saved.
ConvertPngToJpeg(len, env) ==
    IF env.jpeg_raises
    THEN [src |-> "input", len |-> len, success |-> FALSE]
    ELSE [src |-> "jpeg", len |-> env.jpeg_len, success |-> TRUE]

\* (a mutant of ShouldExclude: the whole payload for its first 26 characters)
ShouldExcludeUntruncated(base64_data, excluded_prefixes) ==
    \E k \in 1..Len(excluded_prefixes) : StartsWith(base64_data, excluded_prefixes[k])

\* should_exclude(base64_data, excluded_prefixes)
ShouldExclude(base64_data, excluded_prefixes) ==
    LET prefix == SubSeq(base64_data, 1, IF Len(base64_data) < 26
                                         THEN Len(base64_data) ELSE 26)
    IN  \E k \in 1..Len(excluded_prefixes) : StartsWith(prefix, excluded_prefixes[k])

\* (a mutant of BelowMinRatio: `<=` for `<`)
AtOrBelowMinRatio(original_size, new_size, min_ratio_pct) ==
    (original_size - new_size) * 100 <= min_ratio_pct * original_size

\* `compression_ratio < min_ratio`, compression_ratio being
\* (original_size - new_size) / original_size and min_ratio being
\* min_ratio_pct hundredths
BelowMinRatio(original_size, new_size, min_ratio_pct) ==
    (original_size - new_size) * 100 < min_ratio_pct * original_size

\* what one of the optimisers gave, with both statistics
Optimized(optimiser, o, mime, compression, astats, istats) ==
    [src |-> o.src, len |-> o.len, mime |-> mime, compression |-> compression,
     audio_stats |-> astats, image_stats |-> istats, optimiser |-> optimiser]

\* f'data-optimized-src="..." data-mime-type="..." data-encoding="..."
\* data-compression="..."'
OptimizedAttrs(encoded_data, new_mime_type, encoding, compression) ==
    "data-optimized-src=\"" \o encoded_data \o "\" data-mime-type=\"" \o new_mime_type
    \o "\" data-encoding=\"" \o encoding \o "\" data-compression=\"" \o compression
    \o "\""

\* the encoding step and the ratio check that end process_data_uri of
\* optimise_base64_former.py and optimise_base64_image_audio.py
EncodeAndCompare(data_uri, base64_data, binary_data, r, options) ==
    Only({Only({[ret |-> IF BelowMinRatio(Len(base64_data), Len(encoded_data),
                                          options.min_ratio_pct)
                         THEN data_uri
                         ELSE OptimizedAttrs(encoded_data, r.mime,
                                             IF options.use_base85 THEN "base85"
                                             ELSE "base64",
                                             r.compression),
                 audio_stats |-> r.audio_stats, image_stats |-> r.image_stats,
                 optimiser |-> r.optimiser, new_size |-> Len(encoded_data)] :
                  encoded_data \in {IF options.use_base85
                                    THEN EncodeBase85(optimized_data)
                                    ELSE B64Encode(optimized_data)}}) :
             optimized_data \in {OutBytes(r, binary_data)}})

\* the optimiser process_data_uri of optimise_base64_former.py picks for the
\* MIME type, applied to n bytes
DispatchFormer(mime_type, n, options, env, st) ==
    IF mime_type = "image/svg+xml"
    THEN LET o == OptimizeSvgFormer(n, env, st.image_stats)
         IN  Optimized("optimize_svg", o, mime_type, o.compression, st.audio_stats,
                       o.stats)
    ELSE IF StartsWith(mime_type, "image/")
    THEN LET o == OptimizeImageFormer(n, mime_type, options.use_webp, env,
                                      st.image_stats)
         IN  Optimized("optimize_image", o, o.mime, "none", st.audio_stats, o.stats)
    ELSE IF StartsWith(mime_type, "audio/")
    THEN LET o == OptimizeAudioFormer(n, mime_type, env, st.audio_stats)
         IN  Optimized("optimize_audio", o, o.mime, "none", o.stats, st.image_stats)
    ELSE Optimized("none", [src |-> "input", len |-> n], mime_type, "none",
                   st.audio_stats, st.image_stats)

\* process_data_uri of optimise_base64_former.py
ProcessDataUriFormer(data_uri, tag_name, options, env, st) ==
    Only({IF ~m.found THEN ReturnDataUri(data_uri, st)
          ELSE IF ~IsValidBase64(m.base64_data) THEN ReturnDataUri(data_uri, st)
          ELSE Only({IF TooSmall(binary_data, options)
                     THEN ReturnDataUri(data_uri, st)
                     ELSE Only({EncodeAndCompare(data_uri, m.base64_data,
                                                 binary_data, r, options) :
                                  r \in {DispatchFormer(m.mime_type, Len(binary_data),
                                                        options, env, st)}}) :
                        binary_data \in {B64Decode(m.base64_data)}}) :
             m \in {UriSearch(data_uri)}})

\* the image optimiser process_data_uri of optimise_base64_image_audio.py
\* picks for a MIME type that is not audio, applied to n bytes
DispatchIA(mime_type, n, options, env, st) ==
    IF mime_type = "image/svg+xml"
    THEN LET o == OptimizeSvgIA(n, env, st.image_stats)
         IN  Optimized("optimize_svg", o, mime_type, o.compression, st.audio_stats,
                       o.stats)
    ELSE IF StartsWith(mime_type, "image/")
    THEN LET o == OptimizeImageIA(n, mime_type, options.use_webp, env,
                                  st.image_stats)
         IN  Optimized("optimize_image", o, o.mime, "none", st.audio_stats, o.stats)
    ELSE Optimized("none", [src |-> "input", len |-> n], mime_type, "none",
                   st.audio_stats, st.image_stats)

\* process_data_uri of optimise_base64_image_audio.py
ProcessDataUriIA(data_uri, tag_name, options, env, st) ==
    Only({IF ~m.found THEN ReturnDataUri(data_uri, st)
          ELSE IF ~IsValidBase64(m.base64_data) THEN ReturnDataUri(data_uri, st)
          ELSE Only({IF TooSmall(binary_data, options)
                     THEN ReturnDataUri(data_uri, st)
                     ELSE IF /\ m.mime_type # "image/svg+xml"
                             /\ ~StartsWith(m.mime_type, "image/")
                             /\ StartsWith(m.mime_type, "audio/")
                     THEN Only({Only({[ret |-> "data:" \o a.mime \o ";base64,"
                                               \o encoded_data,
                                       audio_stats |-> a.stats,
                                       image_stats |-> st.image_stats,
                                       optimiser |-> "optimize_audio",
                                       new_size |-> Len(encoded_data)] :
                                        encoded_data \in
                                          {B64Encode(OutBytes(a, binary_data))}}) :
                                  a \in {OptimizeAudioIA(Len(binary_data), m.mime_type,
                                                         env, st.audio_stats)}})
                     ELSE Only({EncodeAndCompare(data_uri, m.base64_data,
                                                 binary_data, r, options) :
                                  r \in {DispatchIA(m.mime_type, Len(binary_data),
                                                    options, env, st)}}) :
                        binary_data \in {B64Decode(m.base64_data)}}) :
             m \in {UriSearch(data_uri)}})

\* what process_data_uri of png_to_jpeg_optimiser.py does with the decoded
\* bytes of a URI that is large enough
ConvertAndCompare(data_uri, m, binary_data, options, env, st) ==
    LET convert == m.mime_type = "image/png" /\ options.png_to_jpeg
        j == ConvertPngToJpeg(Len(binary_data), env)
        new_mime_type == IF convert /\ j.success THEN "image/jpeg" ELSE m.mime_type
        called == IF convert THEN "convert_png_to_jpeg" ELSE "none"
    IN  IF convert /\ ShouldExclude(m.base64_data, options.excluded_prefixes)
        THEN ReturnDataUri(data_uri, st)
        ELSE Only({IF /\ BelowMinRatio(Len(m.base64_data), Len(encoded_data),
                                       options.min_ratio_pct)
                      /\ m.mime_type # "image/png"
                   THEN [ReturnDataUri(data_uri, st) EXCEPT
                            !.optimiser = called, !.new_size = Len(encoded_data)]
                   ELSE [ret |-> "data-optimized-src=\"" \o encoded_data
                                 \o "\" data-mime-type=\"" \o new_mime_type \o "\"",
                         audio_stats |-> st.audio_stats,
                         image_stats |-> st.image_stats,
                         optimiser |-> called, new_size |-> Len(encoded_data)] :
                      encoded_data \in {B64Encode(IF convert
                                                  THEN OutBytes(j, binary_data)
                                                  ELSE binary_data)}})

\* process_data_uri of png_to_jpeg_optimiser.py
ProcessDataUriPng(data_uri, tag_name, options, env, st) ==
    Only({IF ~m.found THEN ReturnDataUri(data_uri, st)
          ELSE IF ~IsValidBase64(m.base64_data) THEN ReturnDataUri(data_uri, st)
          ELSE Only({IF TooSmall(binary_data, options)
                     THEN ReturnDataUri(data_uri, st)
                     ELSE ConvertAndCompare(data_uri, m, binary_data, options, env,
                                            st) :
                        binary_data \in {B64Decode(m.base64_data)}}) :
             m \in {UriSearch(data_uri)}})

\* process_data_uri of the script named
ProcessDataUri(script, data_uri, tag_name, options, env, st) ==
    CASE script = "optimise_base64" ->
           ProcessDataUriBase64(data_uri, tag_name, options, env, st)
      [] script = "optimise_base64_former" ->
           ProcessDataUriFormer(data_uri, tag_name, options, env, st)
      [] script = "optimise_base64_image_audio" ->
           ProcessDataUriIA(data_uri, tag_name, options, env, st)
      [] script = "png_to_jpeg_optimiser" ->
           ProcessDataUriPng(data_uri, tag_name, options, env, st)

(***************************************************************************)
(* The substitutions of optimise_html_file / optimize_html_file /          *)
(* process_chunk: re.sub over the tags, and inside each tag re.sub over     *)
(* the attribute, whose replacement calls process_data_uri.                *)
(***************************************************************************)

\* The passes: the tag and attribute the pattern names, the start it asks of
\* the URI, and whether the lambda writes its own src="..." / url(...) around
\* what process_data_uri returns.
ImgPass == [kind |-> "tag", tag |-> "img", attr |-> "src", prefix |-> "data:",
            tag_name |-> "img", wrap |-> FALSE]

SourceSrcsetPass == [kind |-> "tag", tag |-> "source", attr |-> "srcset",
                     prefix |-> "data:", tag_name |-> "source", wrap |-> FALSE]

AudioAnyPass == [kind |-> "tag", tag |-> "audio", attr |-> "src", prefix |-> "data:",
                 tag_name |-> "audio", wrap |-> FALSE]

SourceSrcPass == [kind |-> "tag", tag |-> "source", attr |-> "src",
                  prefix |-> "data:audio/", tag_name |-> "source", wrap |-> TRUE]

AudioPass == [kind |-> "tag", tag |-> "audio", attr |-> "src",
              prefix |-> "data:audio/", tag_name |-> "audio", wrap |-> TRUE]

CssPass == [kind |-> "css", tag |-> "", attr |-> "", prefix |-> "data:",
            tag_name |-> "None", wrap |-> TRUE]

Passes(script) ==
    CASE script = "optimise_base64" -> <<SourceSrcPass, AudioPass>>
      [] script = "optimise_base64_former" ->
           <<ImgPass, SourceSrcsetPass, AudioAnyPass, CssPass>>
      [] script = "optimise_base64_image_audio" ->
           <<ImgPass, SourceSrcsetPass, SourceSrcPass, AudioPass, CssPass>>
      [] script = "png_to_jpeg_optimiser" -> <<ImgPass, SourceSrcsetPass, CssPass>>

\* the text and the statistics while a substitution runs
Doc(text, st) ==
    [text |-> text, audio_stats |-> st.audio_stats, image_stats |-> st.image_stats,
     uri_calls |-> st.uri_calls]

\* the inner pattern matched at position i of the tag text
InnerMatchEnd(t, i, pass) ==
    IF pass.kind = "css" THEN UrlMatchEnd(t, i)
    ELSE AttrMatchEnd(t, i, pass.attr, pass.prefix)

\* the outer pattern matched at position i of the file text
OuterMatchEnd(s, i, pass) ==
    IF pass.kind = "css" THEN CssMatchEnd(s, i)
    ELSE TagMatchEnd(s, i, pass.tag, pass.attr, pass.prefix)

\* what the inner lambda gives for what process_data_uri returned
Replacement(pass, ret) ==
    IF ~pass.wrap THEN ret
    ELSE IF pass.kind = "css" THEN "url(" \o ret \o ")"
    ELSE "src=\"" \o ret \o "\""

\* the call of process_data_uri for the inner match data_uri, which ends
\* before e, and the inner re.sub over what follows the match
RECURSIVE SubInner(_, _, _, _, _, _, _)
SubInnerMatch(t, before, data_uri, e, pass, script, options, env, st) ==
    Only({Only({Only({[rest EXCEPT !.text = before \o Replacement(pass, r.ret) \o @] :
                        rest \in {SubInner(t, e, pass, script, options, env, after)}}) :
                   after \in {[audio_stats |-> r.audio_stats,
                               image_stats |-> r.image_stats,
                               uri_calls |-> Append(st.uri_calls,
                                                    [tag_name |-> pass.tag_name,
                                                     data_uri |-> data_uri,
                                                     ret |-> r.ret,
                                                     optimiser |-> r.optimiser,
                                                     new_size |-> r.new_size,
                                                     stats_before |->
                                                       <<st.audio_stats,
                                                         st.image_stats>>,
                                                     stats_after |->
                                                       <<r.audio_stats,
                                                         r.image_stats>>])]}}) :
             r \in {ProcessDataUri(script, data_uri, pass.tag_name, options, env, st)}})

\* the inner re.sub, from position i of the tag text t on: the text up to
\* the next match stays, the match gives way to the replacement, and the
\* search goes on behind the match
SubInner(t, i, pass, script, options, env, st) ==
    Only({IF j = 0 THEN Doc(From(t, i), st)
          ELSE Only({Only({SubInnerMatch(t, before, data_uri, e, pass, script,
                                         options, env, st) :
                             before \in {SubSeq(t, i, j - 1)},
                             data_uri \in {SubSeq(t, j, e - 1)}}) :
                        e \in {InnerMatchEnd(t, j, pass)}}) :
             j \in {First({x \in i..Len(t) : InnerMatchEnd(t, x, pass) # 0}, 0)}})

\* the inner re.sub over the outer match tag, which ends before e, and the
\* outer re.sub over what follows the match
RECURSIVE SubOuter(_, _, _, _, _, _, _)
SubOuterMatch(s, before, tag, e, pass, script, options, env, st) ==
    Only({Only({[rest EXCEPT !.text = before \o inner.text \o @] :
                  rest \in {SubOuter(s, e, pass, script, options, env, inner)}}) :
             inner \in {SubInner(tag, 1, pass, script, options, env, st)}})

\* the outer re.sub, from position i of the text s on
SubOuter(s, i, pass, script, options, env, st) ==
    Only({IF j = 0 THEN Doc(From(s, i), st)
          ELSE Only({Only({SubOuterMatch(s, before, tag, e, pass, script, options,
                                         env, st) :
                             before \in {SubSeq(s, i, j - 1)},
                             tag \in {SubSeq(s, j, e - 1)}}) :
                        e \in {OuterMatchEnd(s, j, pass)}}) :
             j \in {First({x \in i..Len(s) : OuterMatchEnd(s, x, pass) # 0}, 0)}})

\* the passes of a script one after the other, from pass k on
RECURSIVE RunPasses(_, _, _, _, _, _)
RunPasses(s, k, script, options, env, st) ==
    IF k > Len(Passes(script)) THEN Doc(s, st)
    ELSE Only({Only({RunPasses(text, k + 1, script, options, env, d) :
                       text \in {d.text}}) :
                  d \in {SubOuter(s, 1, Passes(script)[k], script, options, env, st)}})

\* process_chunk(chunk, options) of optimise_base64.py
ProcessChunk(chunk, options, env, st) ==
    RunPasses(chunk, 1, "optimise_base64", options, env, st)

\* `chunk_size=10*1024*1024`
ChunkSize == 10485760

\* the loop of process_file_in_chunks of optimise_base64.py: read chunk_size
\* characters, process them, write them, until the file ends
RECURSIVE ChunkLoop(_, _, _, _, _)
ChunkLoop(rest, chunk_size, options, env, st) ==
    IF rest = "" THEN Doc("", st)
    ELSE Only({Only({[more EXCEPT !.text = d.text \o @] :
                       more \in {ChunkLoop(behind, chunk_size, options, env, d)}}) :
                  chunk \in {SubSeq(rest, 1, IF Len(rest) < chunk_size THEN Len(rest)
                                             ELSE chunk_size)},
                  behind \in {From(rest, 1 + (IF Len(rest) < chunk_size THEN Len(rest)
                                              ELSE chunk_size))},
                  d \in {ProcessChunk(SubSeq(rest, 1, IF Len(rest) < chunk_size
                                                      THEN Len(rest) ELSE chunk_size),
                                      options, env, st)}})

\* The decoder script the image optimisers put into the page (its text does
\* not matter here).
DECODER_JS == "<script>/* decoder */</script>"

\* str.replace(old, new)
RECURSIVE Replace(_, _, _)
Replace(s, old, new) ==
    Only({IF k = 0 THEN s
          ELSE Only({SubSeq(s, 1, k - 1) \o new \o Replace(behind, old, new) :
                        behind \in {From(s, k + Len(old))}}) :
             k \in {Find(s, old, 1)}})

\* "Add decoder JavaScript before closing body tag"
AddDecoder(html_content) ==
    IF Find(html_content, "</body>", 1) # 0
    THEN Replace(html_content, "</body>", DECODER_JS \o "</body>")
    ELSE html_content \o DECODER_JS

(***************************************************************************)
(* One run of an optimiser script over an HTML file.                       *)
(***************************************************************************)

\* a tag or declaration holding a data URI
TagText(kind, q, mime, payload) ==
    LET uri == q \o "data:" \o mime \o ";base64," \o payload \o q
    IN  CASE kind = "audio" -> "<audio controls src=" \o uri \o "></audio>"
          [] kind = "source" -> "<source src=" \o uri \o " type=\"" \o mime \o "\">"
          [] kind = "img" -> "<img src=" \o uri \o " alt=\"\">"
          [] kind = "srcset" -> "<source srcset=" \o uri \o ">"
          [] kind = "css" -> "background-image: url(" \o uri \o ")"

\* the tag as it stands in the page
InPage(tag) ==
    IF tag.kind = "css" THEN "<p style=\"" \o tag.text \o "\"></p>" ELSE tag.text

Payloads == {"QUJD", "QUJDREVG", "QUJ"}

AudioTags ==
    {[kind |-> k, text |-> TagText(k, q, "audio/wav", p)] :
        k \in {"audio", "source"}, q \in Quotes, p \in Payloads}

ImageTags ==
    {[kind |-> "img", text |-> TagText("img", q, mime, p)] :
        q \in Quotes, mime \in {"image/png", "image/jpeg", "image/svg+xml"},
        p \in Payloads}
    \cup {[kind |-> "srcset", text |-> TagText("srcset", "\"", "image/png", p)] :
             p \in Payloads}

CssTags ==
    {[kind |-> "css", text |-> TagText("css", q, mime, p)] :
        q \in {"", "'"}, mime \in {"image/png", "image/jpeg", "image/svg+xml"},
        p \in Payloads}

\* some pages of two tags, and one whose payload starts with a blank
TwoTagPages ==
    {<<[kind |-> "audio", text |-> TagText("audio", "\"", "audio/wav", "QUJD")],
       [kind |-> "source", text |-> TagText("source", "'", "audio/wav", "QUJDREVG")]>>,
     <<[kind |-> "css", text |-> TagText("css", "", "image/png", "QUJD")],
       [kind |-> "img", text |-> TagText("img", "\"", "image/png", "QUJDREVG")]>>,
     <<[kind |-> "audio", text |-> TagText("audio", "\"", "audio/wav", " QUJD")]>>}

\* the input files: a body of one tag, and a few more without a body element
Pages ==
    {[tags |-> <<t>>, text |-> "<body>" \o InPage(t) \o "</body>"] :
        t \in AudioTags \cup ImageTags \cup CssTags}
    \cup {[tags |-> ts, text |-> Join([k \in 1..Len(ts) |-> InPage(ts[k])])] :
             ts \in TwoTagPages}

\* the options main() builds from the command line
MinSizes == {0, 4}

MinRatioPcts == {0, 5}

NoOptions ==
    [min_size |-> 0, min_ratio_pct |-> 5, use_base85 |-> TRUE, use_webp |-> TRUE,
     png_to_jpeg |-> FALSE, excluded_prefixes |-> <<>>]

AudioOptions == {[NoOptions EXCEPT !.min_size = m] : m \in MinSizes}

ImageOptions ==
    {[NoOptions EXCEPT !.min_size = m, !.min_ratio_pct = p, !.use_base85 = b] :
        m \in MinSizes, p \in MinRatioPcts, b \in BOOLEAN}
    \cup {[NoOptions EXCEPT !.use_webp = FALSE, !.use_base85 = FALSE]}

PngOptions ==
    {[NoOptions EXCEPT !.min_size = m, !.min_ratio_pct = p, !.png_to_jpeg = j,
                       !.excluded_prefixes = x] :
        m \in MinSizes, p \in MinRatioPcts, j \in BOOLEAN,
        x \in {<<>>, <<"QUJDRE">>}}

\* what the tools do in a run: every asset of the run meets the same
NoEnv ==
    [ffmpeg |-> "not_found", run |-> "none", out_len |-> 0,
     pillow |-> FALSE, valid |-> FALSE, raises |-> FALSE, webp_len |-> 0,
     saved_len |-> 0, svg_raises |-> TRUE, gz_len |-> 0, min_len |-> 0,
     jpeg_raises |-> TRUE, jpeg_len |-> 0]

AudioEnvs ==
    {NoEnv, [NoEnv EXCEPT !.ffmpeg = "ok", !.run = "nonzero"]}
    \cup {[NoEnv EXCEPT !.ffmpeg = "ok", !.run = "zero", !.out_len = k] : k \in {1, 9}}

ImageEnvs ==
    {[NoEnv EXCEPT !.pillow = TRUE],
     [NoEnv EXCEPT !.pillow = TRUE, !.valid = TRUE, !.raises = TRUE]}
    \cup {[NoEnv EXCEPT !.pillow = TRUE, !.valid = TRUE, !.webp_len = x[1],
                        !.saved_len = x[2]] : x \in {<<1, 2>>, <<9, 2>>, <<9, 9>>}}
    \cup {[NoEnv EXCEPT !.svg_raises = FALSE, !.gz_len = x[1], !.min_len = x[2]] :
             x \in {<<1, 2>>, <<9, 2>>, <<9, 9>>}}

JpegEnvs ==
    {NoEnv} \cup {[NoEnv EXCEPT !.jpeg_raises = FALSE, !.jpeg_len = k] : k \in {1, 9}}

HtmlFrame == UNCHANGED <<fontVars, mergeVars, b85Vars, optVars, uriVars>>

HtmlInit ==
    /\ FontsIdle /\ MergeIdle /\ B85Idle /\ OptIdle /\ StatsIdle /\ UriIdle
    /\ \E page \in Pages : html_in = page.text /\ html_tags = page.tags
    /\ html_out = "" /\ hscript = "" /\ hopts = <<>> /\ henv = <<>>
    /\ uri_calls = <<>> /\ hpc = "start"

\* the statistics and the calls as the run finds them
Before == [audio_stats |-> audio_stats, image_stats |-> image_stats,
           uri_calls |-> uri_calls]

\* the run is over: the output file is written
Written(script, options, env, text, d) ==
    /\ html_out' = text
    /\ audio_stats' = d.audio_stats
    /\ image_stats' = d.image_stats
    /\ uri_calls' = d.uri_calls
    /\ hscript' = script
    /\ hopts' = options
    /\ henv' = env
    /\ hpc' = "done"
    /\ UNCHANGED <<html_in, html_tags>>
    /\ HtmlFrame

\* optimise_html_file of optimise_base64.py
OptimiseHtmlFile ==
    /\ hpc = "start"
    /\ \E options \in AudioOptions, env \in AudioEnvs :
          \E d \in {RunPasses(html_in, 1, "optimise_base64", options, env, Before)} :
              Written("optimise_base64", options, env, d.text, d)

\* process_file_in_chunks of optimise_base64.py
ProcessFileInChunks ==
    /\ hpc = "start"
    /\ \E options \in AudioOptions, env \in AudioEnvs :
          \E d \in {ChunkLoop(html_in, ChunkSize, options, env, Before)} :
              Written("optimise_base64 -c", options, env, d.text, d)

\* optimize_html_file of optimise_base64_former.py
OptimizeHtmlFileFormer ==
    /\ hpc = "start"
    /\ \E options \in ImageOptions, env \in AudioEnvs \cup ImageEnvs :
          \E d \in {RunPasses(html_in, 1, "optimise_base64_former", options, env, Before)} :
              Written("optimise_base64_former", options, env, AddDecoder(d.text), d)

\* optimize_html_file of optimise_base64_image_audio.py
OptimizeHtmlFileIA ==
    /\ hpc = "start"
    /\ \E options \in ImageOptions, env \in AudioEnvs \cup ImageEnvs :
          \E d \in {RunPasses(html_in, 1, "optimise_base64_image_audio", options, env,
                             Before)} :
              Written("optimise_base64_image_audio", options, env,
                      AddDecoder(d.text), d)

\* optimize_html_file of png_to_jpeg_optimiser.py
OptimizeHtmlFilePng ==
    /\ hpc = "start"
    /\ \E options \in PngOptions, env \in JpegEnvs :
          \E d \in {RunPasses(html_in, 1, "png_to_jpeg_optimiser", options, env, Before)} :
              Written("png_to_jpeg_optimiser", options, env, AddDecoder(d.text), d)

HtmlNext ==
    \/ OptimiseHtmlFile
    \/ ProcessFileInChunks
    \/ OptimizeHtmlFileFormer
    \/ OptimizeHtmlFileIA
    \/ OptimizeHtmlFilePng

SpecHtml == HtmlInit /\ [][HtmlNext]_vars

(***************************************************************************)
(* optimize_image called with max_dimension on images of known width and   *)
(* height.                                                                 *)
(***************************************************************************)

\* <<width, height>> of the image the data decodes to
ImageSizes == {<<2, 2>>, <<4, 2>>, <<2, 4>>, <<4, 4>>, <<3, 4>>}

\* max_dimension: 0 stands for None (--max-dimension not given)
MaxDimensions == {0, 2, 3}

\* "Resize if needed": the size of img after the step.  int(h * (m / w)) is
\* the floor of h * m / w for the sizes above.
ResizedSize(width, height, max_dimension) ==
    IF max_dimension # 0 /\ (width > max_dimension \/ height > max_dimension)
    THEN IF width > height
         THEN <<max_dimension, (height * max_dimension) \div width>>
         ELSE <<(width * max_dimension) \div height, max_dimension>>
    ELSE <<width, height>>

\* the size of the image the returned data decodes to: image_data is the
\* input as it came, webp_data and optimized_data are img saved after the
\* resize step
ReturnedImage(r, width, height, max_dimension) ==
    LET size == IF r.src = "input" THEN <<width, height>>
                ELSE ResizedSize(width, height, max_dimension)
    IN  [src |-> r.src, len |-> r.len, mime |-> r.mime,
         width |-> size[1], height |-> size[2]]

ResizeInit ==
    /\ FontsIdle /\ MergeIdle /\ B85Idle /\ HtmlIdle /\ UriIdle
    /\ ocall = NoCall /\ oret = NoReturn /\ ocalls = 0
    /\ audio_stats = ZeroStats /\ image_stats = ZeroStats

\* optimize_image(image_data, mime_type, convert_to_webp=..., max_dimension=...)
\* of optimise_base64_former.py
CallOptimizeImageFormerSized ==
    /\ ocalls = 0
    /\ \E len \in {ImageSkipBytes - 1, ImageSkipBytes}, mime \in ImageMimes,
          webp \in BOOLEAN, size \in ImageSizes, max_dimension \in MaxDimensions :
         \E env \in PillowEnvs(len) :
            LET r == OptimizeImageFormer(len, mime, webp, env, image_stats)
            IN  /\ ocall' = [fn |-> "optimize_image_former", len |-> len, mime |-> mime,
                              env |-> env, width |-> size[1], height |-> size[2],
                              max_dimension |-> max_dimension]
                /\ oret' = ReturnedImage(r, size[1], size[2], max_dimension)
                /\ image_stats' = r.stats
    /\ ocalls' = ocalls + 1
    /\ UNCHANGED audio_stats
    /\ OptFrame

\* optimize_image(...) of optimise_base64_image_audio.py
CallOptimizeImageIASized ==
    /\ ocalls = 0
    /\ \E len \in {ImageSkipBytes - 1, ImageSkipBytes}, mime \in ImageMimes,
          webp \in BOOLEAN, size \in ImageSizes, max_dimension \in MaxDimensions :
         \E env \in PillowEnvs(len) :
            LET r == OptimizeImageIA(len, mime, webp, env, image_stats)
            IN  /\ ocall' = [fn |-> "optimize_image", len |-> len, mime |-> mime,
                              env |-> env, width |-> size[1], height |-> size[2],
                              max_dimension |-> max_dimension]
                /\ oret' = ReturnedImage(r, size[1], size[2], max_dimension)
                /\ image_stats' = r.stats
    /\ ocalls' = ocalls + 1
    /\ UNCHANGED audio_stats
    /\ OptFrame

ResizeNext ==
    \/ CallOptimizeImageFormerSized
    \/ CallOptimizeImageIASized

SpecResize == ResizeInit /\ [][ResizeNext]_vars

(***************************************************************************)
(* png_to_jpeg_optimiser.py: should_exclude and process_data_uri called    *)
(* with payloads and --exclude entries on both sides of 26 characters.     *)
(***************************************************************************)

\* base64 payloads of 4, 8 and 28 characters
ExcludePayloads == {"QUJD", "QUJDREVG", "QUJDREVGR0hJSktMTU5PUFFSU1RV"}

\* entries of --exclude: empty, short, of 26 and of 27 characters, and one
\* that starts none of the payloads
ExcludeEntries ==
    {"", "QUJDRE", "QUJDREVGR0hJSktMTU5PUFFSU1", "QUJDREVGR0hJSktMTU5PUFFSU1R",
     "iVBORw0KGgo"}

\* the lists --exclude can give: no entry, one, two
ExcludeLists ==
    {<<>>} \cup {<<e>> : e \in ExcludeEntries}
           \cup {<<e, f>> : e \in ExcludeEntries, f \in ExcludeEntries}

UriFrame == UNCHANGED <<fontVars, mergeVars, b85Vars, optVars, statVars, htmlVars>>

UriInit ==
    /\ FontsIdle /\ MergeIdle /\ B85Idle /\ OptIdle /\ StatsIdle /\ HtmlIdle
    /\ ucall = <<>> /\ uret = <<>> /\ upc = "start"

\* should_exclude(base64_data, excluded_prefixes)
CallShouldExclude ==
    /\ upc = "start"
    /\ \E base64_data \in ExcludePayloads, excluded_prefixes \in ExcludeLists :
         /\ ucall' = [fn |-> "should_exclude", base64_data |-> base64_data,
                      excluded_prefixes |-> excluded_prefixes]
         /\ uret' = [ret |-> ShouldExclude(base64_data, excluded_prefixes)]
    /\ upc' = "done"
    /\ UriFrame

\* process_data_uri(match, 'img', options) of png_to_jpeg_optimiser.py for an
\* <img> whose src holds the payload
CallProcessDataUriPng ==
    /\ upc = "start"
    /\ \E mime \in {"image/png", "image/gif"}, payload \in ExcludePayloads,
          excluded_prefixes \in ExcludeLists, png_to_jpeg \in BOOLEAN,
          min_size \in {0, 4}, env \in JpegEnvs :
         \E data_uri \in {"src=\"data:" \o mime \o ";base64," \o payload \o "\""},
            options \in {[NoOptions EXCEPT !.min_size = min_size,
                                           !.png_to_jpeg = png_to_jpeg,
                                           !.excluded_prefixes = excluded_prefixes]} :
            \E r \in {ProcessDataUriPng(data_uri, "img", options, env,
                                        [audio_stats |-> audio_stats,
                                         image_stats |-> image_stats])} :
               /\ ucall' = [fn |-> "process_data_uri", data_uri |-> data_uri,
                            mime_type |-> mime, base64_data |-> payload,
                            options |-> options, env |-> env]
               /\ uret' = [ret |-> r.ret, optimiser |-> r.optimiser,
                           new_size |-> r.new_size]
    /\ upc' = "done"
    /\ UriFrame

UriNext ==
    \/ CallShouldExclude
    \/ CallProcessDataUriPng

SpecUri == UriInit /\ [][UriNext]_vars

\* the calls of process_data_uri that returned the matched text as it was
DeclinedCalls == {k \in 1..Len(uri_calls) : uri_calls[k].ret = uri_calls[k].data_uri}

\* the tags of the input, of the kinds given, holding the matched text of call k
TagsOfCall(k, kinds) ==
    {j \in 1..Len(html_tags) :
        /\ html_tags[j].kind \in kinds
        /\ Find(html_tags[j].text, uri_calls[k].data_uri, 1) # 0}

\* the payload of the matched text is not valid base64, or decodes to fewer
\* than min_size bytes
TooSmallOrInvalid(data_uri) ==
    LET m == UriSearch(data_uri)
    IN  /\ m.found
        /\ \/ ~IsValidBase64(m.base64_data)
           \/ Len(B64Decode(m.base64_data)) < hopts.min_size

\* C1: in optimise_base64.py, an <audio> or <source> tag whose base64 audio
\* data URI process_data_uri declines (too small, invalid base64, exception)
\* stands in the output of optimise_html_file / process_chunk exactly as it
\* stood in the input.
C1_DeclinedAudioTagIdentical ==
    (hpc = "done" /\ hscript \in {"optimise_base64", "optimise_base64 -c"}) =>
        \A k \in DeclinedCalls :
            TooSmallOrInvalid(uri_calls[k].data_uri) =>
                \A j \in TagsOfCall(k, {"audio", "source"}) :
                    Find(html_out, html_tags[j].text, 1) # 0

\* C2: in optimise_base64_former.py, optimise_base64_image_audio.py and
\* png_to_jpeg_optimiser.py, a declaration background-image: url(data:...)
\* whose data URI process_data_uri returns unchanged stands in the output
\* exactly as it stood in the input.
C2_DeclinedCssIdentical ==
    (hpc = "done" /\ hscript \in {"optimise_base64_former",
                                  "optimise_base64_image_audio",
                                  "png_to_jpeg_optimiser"}) =>
        \A k \in DeclinedCalls : \A j \in TagsOfCall(k, {"css"}) :
            Find(html_out, html_tags[j].text, 1) # 0

\* the calls of process_data_uri that went as far as encoding what the
\* optimiser gave
EncodedCalls == {k \in 1..Len(uri_calls) : uri_calls[k].new_size # -1}

\* the MIME type and the base64 payload of the matched text of call k
UriOfCall(k) == UriSearch(uri_calls[k].data_uri)

\* call k returned data-optimized-src="..." in place of the matched text
Rewritten(k) ==
    /\ uri_calls[k].ret # uri_calls[k].data_uri
    /\ StartsWith(uri_calls[k].ret, "data-optimized-src=\"")

\* (o - n) / o >= min_compression_ratio, o being the length of the payload of
\* call k and n the length of what was encoded
RatioMet(k) ==
    (Len(UriOfCall(k).base64_data) - uri_calls[k].new_size) * 100
        >= hopts.min_ratio_pct * Len(UriOfCall(k).base64_data)

\* C11: in optimise_base64_former.py and optimise_base64_image_audio.py, for
\* a data URI that is not audio and whose payload process_data_uri encoded
\* anew, the call returns the data-optimized-src replacement if and only if
\* (o - n) / o >= min_compression_ratio, and returns the matched text as it
\* was otherwise.
C11_RewrittenIffRatioMet ==
    (hpc = "done" /\ hscript \in {"optimise_base64_former",
                                  "optimise_base64_image_audio"}) =>
        \A k \in EncodedCalls :
            ~StartsWith(UriOfCall(k).mime_type, "audio/") =>
                /\ Rewritten(k) <=> RatioMet(k)
                /\ ~RatioMet(k) => uri_calls[k].ret = uri_calls[k].data_uri

\* a call for an image that missed a ratio of 5 % and gave the text back
C11_Witness ==
    /\ hpc = "done"
    /\ hscript \in {"optimise_base64_former", "optimise_base64_image_audio"}
    /\ hopts.min_ratio_pct = 5
    /\ \E k \in EncodedCalls :
         /\ StartsWith(UriOfCall(k).mime_type, "image/")
         /\ ~RatioMet(k)
         /\ uri_calls[k].ret = uri_calls[k].data_uri

\* a call for an image that met the ratio exactly and was rewritten
C11_WitnessRewritten ==
    /\ hpc = "done"
    /\ hscript \in {"optimise_base64_former", "optimise_base64_image_audio"}
    /\ \E k \in EncodedCalls :
         /\ StartsWith(UriOfCall(k).mime_type, "image/")
         /\ Len(UriOfCall(k).base64_data) = uri_calls[k].new_size
         /\ RatioMet(k)
         /\ Rewritten(k)

\* C12: in png_to_jpeg_optimiser.py, for every data URI whose payload
\* process_data_uri encoded anew, PNG or not, the call returns a rewritten
\* attribute only when (o - n) / o >= min_compression_ratio, and returns the
\* matched text as it was otherwise.
C12_PngRewrittenOnlyIfRatioMet ==
    (hpc = "done" /\ hscript = "png_to_jpeg_optimiser") =>
        \A k \in EncodedCalls :
            /\ Rewritten(k) => RatioMet(k)
            /\ ~RatioMet(k) => uri_calls[k].ret = uri_calls[k].data_uri

\* some entry of the list is a prefix of the first 26 characters of the payload
EntryStartsFirst26(base64_data, excluded_prefixes) ==
    \E k \in 1..Len(excluded_prefixes) :
        /\ Len(excluded_prefixes[k]) <= 26
        /\ Len(excluded_prefixes[k]) <= Len(base64_data)
        /\ \A i \in 1..Len(excluded_prefixes[k]) :
              Ch(excluded_prefixes[k], i) = Ch(base64_data, i)

C13_WitnessExcludedPng ==
    /\ upc = "done" /\ ucall.fn = "process_data_uri"
    /\ ucall.mime_type = "image/png" /\ ucall.options.png_to_jpeg
    /\ ucall.options.excluded_prefixes = <<"QUJDREVGR0hJSktMTU5PUFFSU1">>
    /\ Len(ucall.base64_data) > 26
    /\ uret.ret = ucall.data_uri /\ uret.optimiser = "none"

\* the calls of process_data_uri whose payload is valid base64 and decodes to
\* fewer than min_size bytes
SmallCalls ==
    {k \in 1..Len(uri_calls) :
        /\ UriOfCall(k).found
        /\ IsValidBase64(UriOfCall(k).base64_data)
        /\ Len(B64Decode(UriOfCall(k).base64_data)) < hopts.min_size}

\* C14: in the four optimiser scripts, for a data URI whose decoded payload
\* is shorter than min_size bytes process_data_uri returns the matched text
\* as it was, calls no optimiser, and leaves audio_stats and image_stats as
\* they were.
C14_SmallReturnedUntouched ==
    hpc = "done" =>
        \A k \in SmallCalls :
            /\ uri_calls[k].ret = uri_calls[k].data_uri
            /\ uri_calls[k].optimiser = "none"
            /\ uri_calls[k].stats_after = uri_calls[k].stats_before

\* a run of optimise_base64_image_audio.py met an image of 3 bytes with
\* min_size = 4 and gave it back
C14_Witness ==
    /\ hpc = "done" /\ hscript = "optimise_base64_image_audio"
    /\ hopts.min_size = 4
    /\ \E k \in SmallCalls :
         /\ StartsWith(UriOfCall(k).mime_type, "image/")
         /\ Len(B64Decode(UriOfCall(k).base64_data)) = 3
         /\ uri_calls[k].ret = uri_calls[k].data_uri

\* C15: when max_dimension is given, for every valid image whose width or
\* height exceeds it, the data optimize_image returns decodes to an image
\* whose width and height are both at most max_dimension.
C15_ReturnedWithinMaxDimension ==
    (/\ ocall.fn \in ImageCalls
     /\ ocall.env.pillow /\ ocall.env.valid /\ ocall.mime # "image/svg+xml"
     /\ ocall.max_dimension > 0
     /\ (ocall.width > ocall.max_dimension \/ ocall.height > ocall.max_dimension)) =>
        /\ oret.width <= ocall.max_dimension
        /\ oret.height <= ocall.max_dimension

\* the entries of the listing that end in .ttf/.otf and whose lower-cased
\* name is a key of FONT_NAME_MAP
FontCandidates == {n \in DOMAIN fdir0 : IsCandidate(n)}

\* C16: when rename_fonts prints its summary, renamed_count + skipped_count
\* equals the number of directory entries ending in .ttf/.otf whose
\* lower-cased name is a key of FONT_NAME_MAP: each was counted once, as
\* renamed or as skipped.
C16_SummaryCountsEveryCandidate ==
    fpc = "done" => renamed_count + skipped_count = Cardinality(FontCandidates)

====
